---------------------------- MODULE Spec2Model ----------------------------
(***************************************************************************)
(* Model of the Jira analytics dashboard's data pipeline:                  *)
(*   load_data / prepare_data          (src/src/data/data_loader.py)       *)
(*   process_jira_data and helpers     (src/src/data/processors.py)        *)
(*   the metrics functions             (src/src/ui/dashboard/metrics.py,   *)
(*                                      src/src/ui/dashboard/view.py,      *)
(*                                      src/src/components/visualizations.py,*)
(*                                      src/src/pages/analytics.py)        *)
(*   the sprint selection functions    (src/src/ui/dashboard/              *)
(*                                      sprint_selector.py, view.py)       *)
(*   the cache_data and retry wrappers (src/src/utils/caching.py,          *)
(*                                      src/src/utils/retry.py)            *)
(*   the page entry points             (src/src/pages, streamlit_app.py)   *)
(*                                                                         *)
(* A string is a sequence of one-character strings, so that lower(),       *)
(* strip(), split() and the sprint regex are computed character by         *)
(* character.  A table (DataFrame) is a record [cols, rows]; a row is a    *)
(* function from the table's column names to cells; a cell is a tagged     *)
(* record (Null for NaN/None/NaT).                                         *)
(***************************************************************************)
EXTENDS Integers, Sequences, FiniteSets, TLC

VARIABLES
    csv,    \* the CSV file on disk: [exists, parses, table]
    df,     \* the table the caller currently holds
    call,   \* the most recent call: operation, arguments, result, st.error messages
    cache,  \* the cache dictionary of every cache_data(ttl) decorator
    now,    \* the time in seconds
    trace   \* the calls made through cache_data wrappers so far

vars == <<csv, df, call, cache, now, trace>>

(***************************************************************************)
(* Bounds                                                                  *)
(***************************************************************************)
MaxRows == 2

(***************************************************************************)
(* Characters and strings                                                  *)
(***************************************************************************)
UpperAlpha == <<"A","B","C","D","E","F","G","H","I","J","K","L","M",
                "N","O","P","Q","R","S","T","U","V","W","X","Y","Z">>
LowerAlpha == <<"a","b","c","d","e","f","g","h","i","j","k","l","m",
                "n","o","p","q","r","s","t","u","v","w","x","y","z">>
DigitChars == <<"0","1","2","3","4","5","6","7","8","9">>

IsSpace(c) == c \in {" ", "\t", "\n", "\r"}
IsDigit(c) == \E i \in 1..10 : DigitChars[i] = c
DigitVal(c) == (CHOOSE i \in 1..10 : DigitChars[i] = c) - 1

\* str.lower() on one character
LowerChar(c) ==
    IF \E i \in 1..26 : UpperAlpha[i] = c
    THEN LowerAlpha[CHOOSE i \in 1..26 : UpperAlpha[i] = c]
    ELSE c

\* str.lower()
Lower(s) == [i \in 1..Len(s) |-> LowerChar(s[i])]

\* str.strip(): drop leading and trailing whitespace
Strip(s) ==
    LET nonsp == {i \in 1..Len(s) : ~IsSpace(s[i])}
    IN  IF nonsp = {} THEN <<>>
        ELSE LET lo == CHOOSE i \in nonsp : \A j \in nonsp : i <= j
                 hi == CHOOSE i \in nonsp : \A j \in nonsp : j <= i
             IN  SubSeq(s, lo, hi)

\* x.split(",")[0]
SplitFirst(s) ==
    LET commas == {i \in 1..Len(s) : s[i] = ","}
    IN  IF commas = {} THEN s
        ELSE SubSeq(s, 1, (CHOOSE i \in commas : \A j \in commas : i <= j) - 1)

\* int() of a run of decimal digits
RECURSIVE DigitsToInt(_)
DigitsToInt(s) ==
    IF s = <<>> THEN 0
    ELSE 10 * DigitsToInt(SubSeq(s, 1, Len(s) - 1)) + DigitVal(s[Len(s)])

AllDigits(s) == s # <<>> /\ \A i \in 1..Len(s) : IsDigit(s[i])

(***************************************************************************)
(* Cells                                                                   *)
(***************************************************************************)
Null == [t |-> "null"]                    \* NaN / None / NaT
S(cs) == [t |-> "str", s |-> cs]          \* a Python str
N(n) == [t |-> "num", n |-> n]            \* a number
D(d) == [t |-> "date", d |-> d]           \* a Timestamp, as a day number
B(b) == [t |-> "bool", b |-> b]           \* a bool

IsNull(c) == c.t = "null"

\* Python's str(x) of a cell, as far as the pipeline inspects it
PyStr(c) ==
    IF c.t = "str" THEN c.s
    ELSE IF c.t = "null" THEN <<"n","a","n">>
    ELSE IF c.t = "bool" THEN (IF c.b THEN <<"T","r","u","e">> ELSE <<"F","a","l","s","e">>)
    ELSE <<"#">>                          \* a number or a date: never a keyword

(***************************************************************************)
(* Tables                                                                  *)
(***************************************************************************)
NoneTable == [none |-> TRUE]                       \* Python None
EmptyDF == [cols |-> {}, rows |-> <<>>]            \* pd.DataFrame()

IsNone(t) == "none" \in DOMAIN t
\* DataFrame.empty: any axis of length 0
IsEmpty(t) == t.cols = {} \/ t.rows = <<>>

\* df[col] = f(row): assign (or add) a column
SetCol(t, col, f(_)) ==
    [cols |-> t.cols \cup {col},
     rows |-> [i \in 1..Len(t.rows) |->
                 [c \in t.cols \cup {col} |->
                     IF c = col THEN f(t.rows[i]) ELSE t.rows[i][c]]]]

\* sum of a numeric column after fillna(0)
RECURSIVE SumCol(_, _)
SumCol(rs, col) ==
    IF rs = <<>> THEN 0
    ELSE (IF Head(rs)[col].t = "num" THEN Head(rs)[col].n ELSE 0) + SumCol(Tail(rs), col)

(***************************************************************************)
(* String literals of the source                                           *)
(***************************************************************************)
s_Closed == <<"C","l","o","s","e","d">>
s_Done == <<"D","o","n","e">>
s_Story_Done == <<"S","t","o","r","y"," ","D","o","n","e">>
s_Epic_Done == <<"E","p","i","c"," ","D","o","n","e">>
s_Resolved == <<"R","e","s","o","l","v","e","d">>
s_Complete == <<"C","o","m","p","l","e","t","e">>
s_Completed == <<"C","o","m","p","l","e","t","e","d">>
s_In_Progress == <<"I","n"," ","P","r","o","g","r","e","s","s">>
s_Story_in_Progress == <<"S","t","o","r","y"," ","i","n"," ","P","r","o","g","r","e","s","s">>
s_In_Development == <<"I","n"," ","D","e","v","e","l","o","p","m","e","n","t">>
s_Development == <<"D","e","v","e","l","o","p","m","e","n","t">>
s_To_Do == <<"T","o"," ","D","o">>
s_Backlog == <<"B","a","c","k","l","o","g">>
s_Open == <<"O","p","e","n">>
s_New == <<"N","e","w">>
s_No_Sprint == <<"N","o"," ","S","p","r","i","n","t">>
s_Sprint == <<"S","p","r","i","n","t">>

\* status_map of process_jira_data
status_map ==
    [k \in {s_Closed, s_Done, s_Story_Done, s_Epic_Done, s_Resolved, s_Complete, s_Completed, s_In_Progress, s_Story_in_Progress, s_In_Development, s_Development, s_To_Do, s_Backlog, s_Open, s_New} |->
        IF k \in {s_Closed, s_Done, s_Story_Done, s_Epic_Done, s_Resolved, s_Complete, s_Completed} THEN "Done"
        ELSE IF k \in {s_In_Progress, s_Story_in_Progress, s_In_Development, s_Development}
             THEN "In Progress"
        ELSE "To Do"]

\* the keyword list of is_completed_status in processors.py, view.py, metrics.py
CompletedKeywords7 ==
    {<<"d","o","n","e">>,
     <<"c","l","o","s","e","d">>,
     <<"s","t","o","r","y"," ","d","o","n","e">>,
     <<"e","p","i","c"," ","d","o","n","e">>,
     <<"r","e","s","o","l","v","e","d">>,
     <<"c","o","m","p","l","e","t","e">>,
     <<"c","o","m","p","l","e","t","e","d">>}

\* the keyword list of is_completed_status in visualizations.py, analytics.py
CompletedKeywords4 ==
    {<<"d","o","n","e">>,
     <<"c","l","o","s","e","d">>,
     <<"s","t","o","r","y"," ","d","o","n","e">>,
     <<"e","p","i","c"," ","d","o","n","e">>}

(***************************************************************************)
(* src/src/data/processors.py                                              *)
(***************************************************************************)
Cat(a) == [t |-> "label", a |-> a]        \* a Status Category value

\* is_completed_status of processors.py: str(status).lower() in [...]
is_completed_status(status) == Lower(PyStr(status)) \in CompletedKeywords7

\* re.search(r"Sprint(\d+)", s): the regex without its \s*
SprintRegexDigits_nospace(s) ==
    LET MatchAt(i) ==
            /\ i + 6 <= Len(s)
            /\ SubSeq(s, i, i + 5) = s_Sprint
            /\ IsDigit(s[i + 6])
        starts == {i \in 1..Len(s) : MatchAt(i)}
    IN  IF starts = {} THEN <<>>
        ELSE LET i == CHOOSE a \in starts : \A b \in starts : a <= b
                 e == CHOOSE m \in (i + 6)..Len(s) :
                        /\ \A j \in (i + 6)..m : IsDigit(s[j])
                        /\ (m < Len(s) => ~IsDigit(s[m + 1]))
             IN  SubSeq(s, i + 6, e)

\* re.search(r"Sprint\s*(\d+)", s): the digits of the leftmost match, or <<>>
SprintRegexDigits(s) ==
    LET AfterSpaces(i) ==      \* first position >= i that holds no whitespace
            CHOOSE k \in i..(Len(s) + 1) :
                /\ \A j \in i..(k - 1) : IsSpace(s[j])
                /\ (k <= Len(s) => ~IsSpace(s[k]))
        MatchAt(i) ==
            /\ i + 5 <= Len(s)
            /\ SubSeq(s, i, i + 5) = s_Sprint
            /\ AfterSpaces(i + 6) <= Len(s)
            /\ IsDigit(s[AfterSpaces(i + 6)])
        starts == {i \in 1..Len(s) : MatchAt(i)}
    IN  IF starts = {} THEN <<>>
        ELSE LET i == CHOOSE a \in starts : \A b \in starts : a <= b
                 k == AfterSpaces(i + 6)
                 e == CHOOSE m \in k..Len(s) :
                        /\ \A j \in k..m : IsDigit(s[j])
                        /\ (m < Len(s) => ~IsDigit(s[m + 1]))
             IN  SubSeq(s, k, e)

extract_sprint_number(sprint_str) ==
    IF IsNull(sprint_str) \/ Strip(PyStr(sprint_str)) = <<>> \/ sprint_str = S(s_No_Sprint)
    THEN -1
    ELSE LET ds == SprintRegexDigits(PyStr(sprint_str))
         IN  IF ds = <<>> THEN -1 ELSE DigitsToInt(ds)

\* a date text "YYYY-MM-DD" as a day number (31-day months), or Null
ParseDate(s) ==
    IF /\ Len(s) = 10
       /\ s[5] = "-" /\ s[8] = "-"
       /\ \A i \in {1, 2, 3, 4, 6, 7, 9, 10} : IsDigit(s[i])
       /\ DigitsToInt(SubSeq(s, 6, 7)) \in 1..12
       /\ DigitsToInt(SubSeq(s, 9, 10)) \in 1..31
    THEN D((DigitsToInt(SubSeq(s, 1, 4)) * 12 + DigitsToInt(SubSeq(s, 6, 7)) - 1) * 31
           + DigitsToInt(SubSeq(s, 9, 10)))
    ELSE Null

\* pd.to_datetime(x, errors="coerce") on one cell
to_datetime(c) ==
    IF c.t = "date" THEN c
    ELSE IF c.t = "str" THEN ParseDate(c.s)
    ELSE Null

\* pd.to_numeric(x, errors="coerce").fillna(0) on one cell
to_numeric_fillna0(c) ==
    IF c.t = "num" THEN c
    ELSE IF c.t = "str" /\ AllDigits(Strip(c.s)) THEN N(DigitsToInt(Strip(c.s)))
    ELSE N(0)

DateColumns == {"Created", "Resolved", "Updated", "Due Date"}

\* the date conversion loop shared by prepare_data and process_jira_data
ConvertDates(t) ==
    [cols |-> t.cols,
     rows |-> [i \in 1..Len(t.rows) |->
                 [c \in t.cols |->
                     IF c \in DateColumns THEN to_datetime(t.rows[i][c])
                     ELSE t.rows[i][c]]]]

\* Status Category of one Status cell: .str.strip().map(status_map).fillna("Other")
StatusCategory(status) ==
    IF status.t = "str" /\ Strip(status.s) \in DOMAIN status_map
    THEN Cat(status_map[Strip(status.s)])
    ELSE Cat("Other")

\* the Sprint clean-up of process_jira_data on one cell
CleanSprint(c) ==
    LET x == IF IsNull(c) THEN s_No_Sprint ELSE PyStr(c)
    IN  IF \E i \in 1..Len(x) : x[i] = "," THEN S(Strip(SplitFirst(x))) ELSE S(Strip(x))

\* "Calculate resolution time if Created column exists"
AddResolutionTime(t) ==
    IF "Created" \in t.cols
    THEN SetCol(IF "Resolved" \in t.cols THEN t ELSE SetCol(t, "Resolved", LAMBDA r : Null),
                "Resolution Time (Days)",
                LAMBDA r : IF r["Resolved"].t = "date" /\ r["Created"].t = "date"
                           THEN N(r["Resolved"].d - r["Created"].d)
                           ELSE Null)
    ELSE t

\* "Add status categories with exact mapping" and the Completed flag
AddStatusColumns(t) ==
    IF "Status" \in t.cols
    THEN SetCol(SetCol(t, "Status Category", LAMBDA r : StatusCategory(r["Status"])),
                "Completed", LAMBDA r : B(is_completed_status(r["Status"])))
    ELSE t

\* "Convert Story Points to numeric, replacing NaN with 0"
NumericStoryPoints(t) ==
    IF "Story Points" \in t.cols
    THEN SetCol(t, "Story Points", LAMBDA r : to_numeric_fillna0(r["Story Points"]))
    ELSE t

\* "Process Sprint column if it exists"
ProcessSprint(t) ==
    IF "Sprint" \in t.cols
    THEN SetCol(SetCol(t, "Sprint", LAMBDA r : CleanSprint(r["Sprint"])),
                "Sprint Number", LAMBDA r : N(extract_sprint_number(r["Sprint"])))
    ELSE t

process_jira_data(t) ==
    IF IsEmpty(t) THEN t
    ELSE ProcessSprint(NumericStoryPoints(AddStatusColumns(AddResolutionTime(ConvertDates(t)))))

(***************************************************************************)
(* src/src/data/data_loader.py                                             *)
(***************************************************************************)
s_Medium == <<"M","e","d","i","u","m">>
s_Story == <<"S","t","o","r","y">>
s_No_Epic == <<"N","o"," ","E","p","i","c">>

\* the st.error messages of the loader, by their fixed text
MsgFileNotFound == "Data file not found"
MsgMissingColumns == "Missing required columns"
MsgNoData == "No data found in file"
MsgLoadError == "Error loading data"
MsgPrepareError == "Error preparing data"

required_columns == {"Issue key", "Created", "Status"}

\* the try block of load_data: what it returns, the st.error calls it makes,
\* and whether an exception left the block
load_data_try(f) ==
    IF ~f.exists
    THEN [ret |-> EmptyDF, errs |-> <<MsgFileNotFound>>, exc |-> FALSE]
    ELSE IF ~f.parses                       \* pd.read_csv raises
    THEN [ret |-> EmptyDF, errs |-> <<>>, exc |-> TRUE]
    ELSE IF \E c \in required_columns : c \notin f.table.cols
    THEN [ret |-> EmptyDF, errs |-> <<MsgMissingColumns>>, exc |-> FALSE]
    ELSE IF IsEmpty(f.table)
    THEN [ret |-> EmptyDF, errs |-> <<MsgNoData>>, exc |-> FALSE]
    ELSE [ret |-> f.table, errs |-> <<>>, exc |-> FALSE]

\* load_data without its "except Exception" handler
load_data_unguarded(f) ==
    LET b == load_data_try(f)
    IN  [ret |-> b.ret, errs |-> b.errs, raised |-> b.exc]

\* load_data: the try block under its "except Exception" handler
load_data(f) ==
    LET b == load_data_try(f)
    IN  IF b.exc
        THEN [ret |-> EmptyDF, errs |-> b.errs \o <<MsgLoadError>>, raised |-> FALSE]
        ELSE [ret |-> b.ret, errs |-> b.errs, raised |-> FALSE]

\* processed_df.dropna(subset=["Issue key", "Created"])
DropMissingKeyOrCreated(t) ==
    IF "Issue key" \in t.cols /\ "Created" \in t.cols
    THEN [cols |-> t.cols,
          rows |-> SelectSeq(t.rows, LAMBDA r : ~IsNull(r["Issue key"]) /\ ~IsNull(r["Created"]))]
    ELSE t

\* col[...].fillna(v): replace a missing cell
FillNa(c, v) == IF IsNull(c) THEN v ELSE c

\* the first non-empty sprint value of a row, else "No Sprint"
FirstSprint(c) ==
    LET filled == FillNa(c, S(<<>>))
    IN  IF Strip(PyStr(filled)) # <<>> THEN filled ELSE S(s_No_Sprint)

\* .str on a column that holds no string at all raises AttributeError
StrAccessorRaises(t) ==
    "Status" \in t.cols /\ t.rows # <<>> /\ \A i \in 1..Len(t.rows) : t.rows[i]["Status"].t # "str"

\* "Ensure Status has valid values and consistent casing"
FillStatus(t) ==
    IF "Status" \in t.cols
    THEN SetCol(t, "Status", LAMBDA r : FillNa(r["Status"], S(s_In_Progress)))
    ELSE t

\* "Ensure Priority is a string"
FillPriority(t) ==
    IF "Priority" \in t.cols
    THEN SetCol(t, "Priority", LAMBDA r : S(PyStr(FillNa(r["Priority"], S(s_Medium)))))
    ELSE t

\* "Ensure Issue Type is a string"
FillIssueType(t) ==
    IF "Issue Type" \in t.cols
    THEN SetCol(t, "Issue Type", LAMBDA r : S(PyStr(FillNa(r["Issue Type"], S(s_Story)))))
    ELSE t

\* "Clean Sprint column - handle multiple sprints per issue"
FillSprint(t) ==
    IF "Sprint" \in t.cols
    THEN SetCol(t, "Sprint", LAMBDA r : FirstSprint(r["Sprint"]))
    ELSE t

\* "Handle Epic Link/Name": the first epic column in column order; "Epic Link"
\* is only ever appended by this function, after an existing "Epic Name"
FillEpicLink(t) ==
    IF "Epic Name" \in t.cols
    THEN SetCol(t, "Epic Link", LAMBDA r : FillNa(r["Epic Name"], S(s_No_Epic)))
    ELSE IF "Epic Link" \in t.cols
    THEN SetCol(t, "Epic Link", LAMBDA r : FillNa(r["Epic Link"], S(s_No_Epic)))
    ELSE t

\* the cleaning steps of prepare_data before it calls process_jira_data
CleanColumns(t) ==
    FillEpicLink(FillSprint(FillIssueType(FillPriority(FillStatus(
        NumericStoryPoints(DropMissingKeyOrCreated(ConvertDates(t))))))))

\* the try block of prepare_data
prepare_data_try(t) ==
    IF IsEmpty(t) THEN [ret |-> EmptyDF, exc |-> FALSE]
    ELSE IF StrAccessorRaises(CleanColumns(t)) THEN [ret |-> EmptyDF, exc |-> TRUE]
    ELSE [ret |-> process_jira_data(CleanColumns(t)), exc |-> FALSE]

\* prepare_data: the try block under its "except Exception" handler
prepare_data(t) ==
    LET b == prepare_data_try(t)
    IN  IF b.exc
        THEN [ret |-> EmptyDF, errs |-> <<MsgPrepareError>>, raised |-> FALSE]
        ELSE [ret |-> b.ret, errs |-> <<>>, raised |-> FALSE]

(***************************************************************************)
(* Numbers: a float result is kept as an exact fraction                    *)
(***************************************************************************)
Rat(n, d) == [num |-> n, den |-> d]
RatEq(a, b) == a.num * b.den = b.num * a.den
RatIsZero(a) == a.num = 0
NaN == [nan |-> TRUE]

\* x rounded to the nearest integer, for x = n / d with d > 0
RoundDiv(n, d) ==
    IF n >= 0 THEN (2 * n + d) \div (2 * d) ELSE -((2 * (-n) + d) \div (2 * d))

\* round(x, 1), kept in tenths
Round1(x) == Rat(RoundDiv(10 * x.num, x.den), 10)

\* Series.sum() meets a str among numbers: TypeError
SumRaises(rs, col) == \E i \in 1..Len(rs) : rs[i][col].t = "str"

(***************************************************************************)
(* src/src/ui/dashboard/metrics.py                                         *)
(***************************************************************************)
\* calculate_delta_percentage returning the change as a fraction, not a percentage
calculate_delta_percentage_fraction(current, previous) ==
    IF previous = 0 THEN Rat(0, 1)
    ELSE Rat(current - previous, previous)

calculate_delta_percentage(current, previous) ==
    IF previous = 0 THEN Rat(0, 1)
    ELSE Rat((current - previous) * 100, previous)

\* is_completed_status of metrics.py
is_completed_status_metrics(status) == Lower(PyStr(status)) \in CompletedKeywords7

MetricFields == {"total_issues", "completed", "story_points"}

DefaultSprintMetrics ==
    [current  |-> [f \in MetricFields |-> 0],
     previous |-> [f \in MetricFields |-> 0],
     deltas   |-> [f \in MetricFields |-> Rat(0, 1)],
     failed   |-> FALSE]

\* data[data["Sprint"] == sprint]
SprintRows(data, sprint) ==
    SelectSeq(data.rows, LAMBDA r : r["Sprint"] = sprint)

CompletedRowsMetrics(rs) ==
    SelectSeq(rs, LAMBDA r : is_completed_status_metrics(r["Status"]))

\* the except handler returns the dictionary as far as it had been filled in
Failed(m) == [m EXCEPT !.failed = TRUE]

get_sprint_metrics(data, current_sprint, previous_sprint) ==
    LET m0 == DefaultSprintMetrics
    IN
    IF IsNone(data) \/ IsEmpty(data) THEN m0
    ELSE IF "Sprint" \notin data.cols THEN Failed(m0)            \* KeyError
    ELSE
    LET current_data == SprintRows(data, current_sprint)
    IN
    IF current_data = <<>> THEN m0
    ELSE
    LET m1 == [m0 EXCEPT !.current["total_issues"] = Len(current_data)]
    IN
    IF "Status" \notin data.cols THEN Failed(m1)                 \* KeyError
    ELSE
    LET cur_done == CompletedRowsMetrics(current_data)
        m2 == [m1 EXCEPT !.current["completed"] = Len(cur_done)]
    IN
    IF "Story Points" \notin data.cols \/ SumRaises(cur_done, "Story Points")
    THEN Failed(m2)                                              \* KeyError, TypeError
    ELSE
    LET m3 == [m2 EXCEPT !.current["story_points"] = SumCol(cur_done, "Story Points")]
    IN
    IF IsNull(previous_sprint) \/ previous_sprint = S(<<>>) THEN m3  \* "if previous_sprint:"
    ELSE
    LET previous_data == SprintRows(data, previous_sprint)
    IN
    IF previous_data = <<>> THEN m3
    ELSE
    LET prev_done == CompletedRowsMetrics(previous_data)
        m5 == [m3 EXCEPT !.previous["total_issues"] = Len(previous_data),
                         !.previous["completed"] = Len(prev_done)]
    IN
    IF SumRaises(prev_done, "Story Points") THEN Failed(m5)      \* TypeError
    ELSE
    LET m6 == [m5 EXCEPT !.previous["story_points"] = SumCol(prev_done, "Story Points")]
    IN  [m6 EXCEPT !.deltas = [f \in MetricFields |->
                        calculate_delta_percentage(m6.current[f], m6.previous[f])]]

(***************************************************************************)
(* src/src/ui/dashboard/view.py                                            *)
(***************************************************************************)
\* is_completed_status of view.py
is_completed_status_view(status) == Lower(PyStr(status)) \in CompletedKeywords7

\* calculate_metrics has no try block: raised tells that an exception
\* reached the caller
calculate_metrics(data) ==
    LET zero == [total_issues |-> 0, completed |-> 0, story_points |-> 0,
                 completion_rate |-> Rat(0, 1)]
    IN
    IF IsNone(data) \/ IsEmpty(data) THEN [current |-> zero, raised |-> FALSE]
    ELSE IF "Status" \notin data.cols THEN [current |-> zero, raised |-> TRUE]
    ELSE
    LET completed_issues ==
            SelectSeq(data.rows, LAMBDA r : is_completed_status_view(r["Status"]))
        total == Len(data.rows)
    IN
    IF "Story Points" \in data.cols
    THEN IF SumRaises(completed_issues, "Story Points")
         THEN [current |-> zero, raised |-> TRUE]
         ELSE [current |->
                 [total_issues |-> total,
                  completed |-> Len(completed_issues),
                  story_points |-> SumCol(completed_issues, "Story Points"),
                  completion_rate |->
                      IF total > 0 THEN Round1(Rat(Len(completed_issues) * 100, total))
                      ELSE Rat(0, 1)],
               raised |-> FALSE]
    ELSE [current |-> [zero EXCEPT !.total_issues = total,
                                   !.completed = Len(completed_issues)],
          raised |-> FALSE]

(***************************************************************************)
(* src/src/components/visualizations.py                                    *)
(***************************************************************************)
validate_data(data, required_cols) ==
    /\ ~IsNone(data)
    /\ ~IsEmpty(data)
    /\ required_cols \subseteq data.cols

\* is_completed_status of visualizations.py: status.lower() in [...];
\* a status that is no str has no lower(): AttributeError
is_completed_status_vis(status) == Lower(status.s) \in CompletedKeywords4
LowerRaises(rs) == \E i \in 1..Len(rs) : rs[i]["Status"].t # "str"

calculate_velocity_metrics(data) ==
    LET default == [velocity |-> Rat(0, 1), completed |-> 0]
    IN
    IF ~validate_data(data, {"Status", "Story Points"}) THEN default
    ELSE IF LowerRaises(data.rows) THEN default                  \* except
    ELSE
    LET completed_data == SelectSeq(data.rows, LAMBDA r : is_completed_status_vis(r["Status"]))
    IN  IF SumRaises(completed_data, "Story Points") THEN default \* except
        ELSE [velocity |-> IF Len(completed_data) > 0
                           THEN Rat(SumCol(completed_data, "Story Points"), 2)
                           ELSE Rat(0, 1),
              completed |-> Len(completed_data)]

MsgNoEpicData == "No data available for epic progress"
MsgEpicFailed == "Failed to create epic progress visualization"

\* show_epic_progress: the table it leaves behind (it assigns a column to its
\* argument), the frame it hands to the bar chart, and its st.error calls
show_epic_progress(data) ==
    IF ~validate_data(data, {"Epic Name", "Story Points", "Status"})
    THEN [data |-> data, epic_data |-> <<>>, charted |-> FALSE, errs |-> <<MsgNoEpicData>>]
    ELSE IF LowerRaises(data.rows)
    THEN [data |-> data, epic_data |-> <<>>, charted |-> FALSE, errs |-> <<MsgEpicFailed>>]
    ELSE
    LET marked == SetCol(data, "Completed", LAMBDA r : B(is_completed_status_vis(r["Status"])))
        names == {marked.rows[i]["Epic Name"] : i \in 1..Len(marked.rows)} \ {Null}
        Group(e) == SelectSeq(marked.rows, LAMBDA r : r["Epic Name"] = e)
        Points(e) == SumCol(Group(e), "Story Points")
        Done(e) == Len(SelectSeq(Group(e), LAMBDA r : r["Completed"].b))
        kept == {e \in names : Points(e) > 0}
    IN
    IF SumRaises(marked.rows, "Story Points")
    THEN [data |-> marked, epic_data |-> <<>>, charted |-> FALSE, errs |-> <<MsgEpicFailed>>]
    ELSE [data |-> marked,
          epic_data |-> [e \in kept |->
                          [story_points |-> Points(e),
                           completed |-> Done(e),
                           progress |-> Round1(Rat(Done(e) * 100, Points(e)))]],
          charted |-> kept # {},
          errs |-> <<>>]

MsgNoCapacityData == "No data available for capacity management"
MsgCapacityFailed == "Failed to display capacity management"

\* data[~data["Completed"]]
IncompleteRows(rs) == SelectSeq(rs, LAMBDA r : ~r["Completed"].b)

\* the groups of groupby("Assignee"): a missing assignee forms no group
WorkloadGroups(rs) == {rs[i]["Assignee"] : i \in 1..Len(rs)} \ {Null}

\* ["Story Points"].sum() of one group
WorkloadSum(rs, a) == SumCol(SelectSeq(rs, LAMBDA r : r["Assignee"] = a), "Story Points")

\* the frames sort_values(ascending=False).reset_index() can give: one row
\* per group, descending by sum, groups of equal sum in either order
WorkloadOrders(rs) ==
    {[i \in 1..Cardinality(WorkloadGroups(rs)) |->
         [assignee |-> f[i], story_points |-> WorkloadSum(rs, f[i])]] :
        f \in {g \in [1..Cardinality(WorkloadGroups(rs)) -> WorkloadGroups(rs)] :
                 /\ \A i \in DOMAIN g : \A j \in DOMAIN g : i # j => g[i] # g[j]
                 /\ \A i \in DOMAIN g : \A j \in DOMAIN g :
                       i < j => WorkloadSum(rs, g[i]) >= WorkloadSum(rs, g[j])}}

\* the three numbers show_capacity_management displays
CapacityMetrics(rs) ==
    [total |-> SumCol(rs, "Story Points"),
     completed |-> SumCol(SelectSeq(rs, LAMBDA r : r["Completed"].b), "Story Points"),
     in_progress |-> SumCol(IncompleteRows(rs), "Story Points")]

NoCapacityMetrics == [total |-> 0, completed |-> 0, in_progress |-> 0]

\* data["Completed"] = data["Status"].apply(is_completed_status)
MarkCompleted(data) ==
    SetCol(data, "Completed", LAMBDA r : B(is_completed_status_vis(r["Status"])))

\* show_capacity_management: the table it leaves behind (it assigns a column
\* to its argument), the displayed metrics, the workload frames it can hand
\* to the charts, and its st.error calls
show_capacity_management(data) ==
    IF ~validate_data(data, {"Story Points", "Status", "Assignee"})
    THEN [data |-> data, metrics |-> NoCapacityMetrics, workloads |-> {<<>>},
          errs |-> <<MsgNoCapacityData>>]
    ELSE IF LowerRaises(data.rows)
    THEN [data |-> data, metrics |-> NoCapacityMetrics, workloads |-> {<<>>},
          errs |-> <<MsgCapacityFailed>>]
    ELSE IF SumRaises(data.rows, "Story Points")
    THEN [data |-> MarkCompleted(data), metrics |-> NoCapacityMetrics, workloads |-> {<<>>},
          errs |-> <<MsgCapacityFailed>>]
    ELSE [data |-> MarkCompleted(data),
          metrics |-> CapacityMetrics(MarkCompleted(data).rows),
          workloads |-> WorkloadOrders(IncompleteRows(MarkCompleted(data).rows)),
          errs |-> <<>>]

(***************************************************************************)
(* src/src/data/processors.py: JiraDataProcessor                           *)
(***************************************************************************)
\* pd.to_datetime without errors="coerce" raises on a text that is no date
StrictDateRaises(c) == c.t = "str" /\ ParseDate(c.s) = Null

\* JiraDataProcessor.get_sprint_metrics: its result, the table self.df it
\* leaves behind, and whether an exception reached the caller
processor_get_sprint_metrics(t) ==
    IF IsEmpty(t)
    THEN [total_issues |-> 0, completion_rate |-> Rat(0, 1), avg_cycle_time |-> NaN,
          df |-> t, raised |-> FALSE]
    ELSE
    LET d == IF "Resolved" \in t.cols THEN t ELSE SetCol(t, "Resolved", LAMBDA r : Null)
        resolved == SelectSeq(d.rows, LAMBDA r : ~IsNull(r["Resolved"]))
        total_count == Len(d.rows)
        rate == Rat(Len(resolved) * 100, total_count)
        raises ==
            /\ resolved # <<>>
            /\ \/ "Created" \notin d.cols
               \/ \E i \in 1..Len(resolved) :
                     StrictDateRaises(resolved[i]["Resolved"]) \/ StrictDateRaises(resolved[i]["Created"])
        timed == SelectSeq(resolved, LAMBDA r : to_datetime(r["Created"]).t = "date")
        RECURSIVE SumDays(_)
        SumDays(rs) ==
            IF rs = <<>> THEN 0
            ELSE (to_datetime(Head(rs)["Resolved"]).d - to_datetime(Head(rs)["Created"]).d)
                 + SumDays(Tail(rs))
    IN
    IF raises
    THEN [total_issues |-> 0, completion_rate |-> Rat(0, 1), avg_cycle_time |-> NaN,
          df |-> d, raised |-> TRUE]
    ELSE [total_issues |-> total_count,
          completion_rate |-> rate,
          avg_cycle_time |-> IF timed = <<>> THEN NaN ELSE Rat(SumDays(timed), Len(timed)),
          df |-> d, raised |-> FALSE]

(***************************************************************************)
(* src/src/ui/dashboard/sprint_selector.py and get_current_sprint of       *)
(* src/src/ui/dashboard/view.py                                            *)
(***************************************************************************)
s_BP_EFDDH_Sprint == <<"B","P",":"," ","E","F","D","D","H"," ","S","p","r","i","n","t">>
s_No_Sprint_Data == <<"N","o"," ","S","p","r","i","n","t"," ","D","a","t","a">>

\* the positions at which pat occurs in s
Occurrences(s, pat) ==
    {i \in 1..(Len(s) - Len(pat) + 1) : SubSeq(s, i, i + Len(pat) - 1) = pat}

\* Series.str.contains(pat, na=False) on one cell, for a pattern without
\* regex operators
str_contains(c, pat) == c.t = "str" /\ Occurrences(c.s, pat) # {}

\* the values of a sequence in order of first appearance
\* (drop_duplicates, unique)
RECURSIVE Unique(_)
Unique(s) ==
    IF s = <<>> THEN <<>>
    ELSE LET u == Unique(SubSeq(s, 1, Len(s) - 1))
         IN  IF \E i \in 1..Len(u) : u[i] = s[Len(s)] THEN u ELSE Append(u, s[Len(s)])

\* the orders sort_values("Sprint Number", ascending=False) can leave the
\* rows in: descending by number, rows of equal number in either order
SortedDescending(rows) ==
    {[i \in 1..Len(rows) |-> rows[p[i]]] :
        p \in {q \in [1..Len(rows) -> 1..Len(rows)] :
                 /\ \A i \in 1..Len(rows) : \A j \in 1..Len(rows) : i # j => q[i] # q[j]
                 /\ \A i \in 1..Len(rows) : \A j \in 1..Len(rows) :
                       i < j => rows[q[i]].number.n >= rows[q[j]].number.n}}

\* get_available_sprints: whether it raises, and the lists it can return
get_available_sprints(data) ==
    IF IsNone(data) \/ IsEmpty(data) \/ "Sprint" \notin data.cols
    THEN [raised |-> FALSE, rets |-> {<<>>}]
    ELSE IF "Sprint Number" \notin data.cols                   \* KeyError
    THEN [raised |-> TRUE, rets |-> {}]
    ELSE IF \A i \in 1..Len(data.rows) : data.rows[i]["Sprint"].t # "str"
    THEN [raised |-> TRUE, rets |-> {}]                         \* no .str accessor
    ELSE
    LET sprints_df == Unique([i \in 1..Len(data.rows) |->
                                 [name |-> data.rows[i]["Sprint"],
                                  number |-> data.rows[i]["Sprint Number"]]])
        matching == SelectSeq(sprints_df, LAMBDA r : str_contains(r.name, s_BP_EFDDH_Sprint))
    IN  [raised |-> FALSE,
         rets |-> {[i \in 1..Len(o) |-> o[i].name] : o \in SortedDescending(matching)}]

\* s.split("Sprint")[1], given that "Sprint" occurs in s
SecondPart(s) ==
    LET first == CHOOSE i \in Occurrences(s, s_Sprint) :
                     \A j \in Occurrences(s, s_Sprint) : i <= j
        rest == SubSeq(s, first + Len(s_Sprint), Len(s))
        more == Occurrences(rest, s_Sprint)
    IN  IF more = {} THEN rest
        ELSE SubSeq(rest, 1, (CHOOSE i \in more : \A j \in more : i <= j) - 1)

\* int(x) succeeds on a stripped text: an optional sign and decimal digits
UnsignedPart(x) == IF x # <<>> /\ x[1] \in {"+", "-"} THEN Tail(x) ELSE x
IntParses(x) == AllDigits(UnsignedPart(x))
PyInt(x) ==
    IF x # <<>> /\ x[1] = "-" THEN 0 - DigitsToInt(UnsignedPart(x))
    ELSE DigitsToInt(UnsignedPart(x))

\* the sprints that get_current_sprint enters into sprint_numbers: a str with
\* non-blank text after "Sprint" that int() accepts
HasSprintNumber(c) ==
    /\ c.t = "str"
    /\ Occurrences(c.s, s_Sprint) # {}
    /\ Strip(SecondPart(c.s)) # <<>>
    /\ IntParses(Strip(SecondPart(c.s)))

SprintNumberOf(c) == PyInt(Strip(SecondPart(c.s)))

\* get_current_sprint of view.py
get_current_sprint(data) ==
    IF IsNone(data) \/ IsEmpty(data) \/ "Sprint" \notin data.cols
    THEN S(s_No_Sprint_Data)
    ELSE
    LET sprints == Unique(SelectSeq([i \in 1..Len(data.rows) |-> data.rows[i]["Sprint"]],
                                    LAMBDA c : ~IsNull(c)))
        numbered == SelectSeq(sprints, HasSprintNumber)
    IN  IF numbered = <<>> THEN S(s_No_Sprint_Data)
        ELSE numbered[CHOOSE i \in 1..Len(numbered) :
                         /\ \A j \in 1..Len(numbered) :
                               SprintNumberOf(numbered[j]) <= SprintNumberOf(numbered[i])
                         /\ \A j \in 1..(i - 1) :
                               SprintNumberOf(numbered[j]) < SprintNumberOf(numbered[i])]

(***************************************************************************)
(* src/src/utils/caching.py                                                *)
(***************************************************************************)
\* Python values passed to cached functions: N(n) an int, S(cs) a str, and
PyList(items) == [t |-> "list", items |-> items]
PyTuple(items) == [t |-> "tuple", items |-> items]

\* str(n) of an int
RECURSIVE IntToStr(_)
IntToStr(n) ==
    IF n < 0 THEN <<"-">> \o IntToStr(0 - n)
    ELSE IF n < 10 THEN <<DigitChars[n + 1]>>
    ELSE IntToStr(n \div 10) \o <<DigitChars[(n % 10) + 1]>>

\* sep.join(parts)
RECURSIVE Join(_, _)
Join(parts, sep) ==
    IF parts = <<>> THEN <<>>
    ELSE IF Len(parts) = 1 THEN parts[1]
    ELSE parts[1] \o sep \o Join(Tail(parts), sep)

\* repr(v), which str() of a tuple applies to its items
RECURSIVE repr(_)
repr(v) ==
    IF v.t = "num" THEN IntToStr(v.n)
    ELSE IF v.t = "str" THEN <<"'">> \o v.s \o <<"'">>
    ELSE IF v.t = "list"
    THEN <<"[">> \o Join([i \in 1..Len(v.items) |-> repr(v.items[i])], <<",", " ">>) \o <<"]">>
    ELSE IF Len(v.items) = 1
    THEN <<"(">> \o repr(v.items[1]) \o <<",", ")">>
    ELSE <<"(">> \o Join([i \in 1..Len(v.items) |-> repr(v.items[i])], <<",", " ">>) \o <<")">>

\* json.dumps(v): a tuple is written as an array, like a list
RECURSIVE json_dumps(_)
json_dumps(v) ==
    IF v.t = "num" THEN IntToStr(v.n)
    ELSE IF v.t = "str" THEN <<"\"">> \o v.s \o <<"\"">>
    ELSE <<"[">> \o Join([i \in 1..Len(v.items) |-> json_dumps(v.items[i])], <<",", " ">>)
            \o <<"]">>

\* a < b for keyword names of lower-case letters
RECURSIVE StrLess(_, _)
StrLess(a, b) ==
    IF b = <<>> THEN FALSE
    ELSE IF a = <<>> THEN TRUE
    ELSE IF a[1] = b[1] THEN StrLess(Tail(a), Tail(b))
    ELSE (CHOOSE i \in 1..26 : LowerAlpha[i] = a[1]) < (CHOOSE i \in 1..26 : LowerAlpha[i] = b[1])

\* dict(sorted(kwargs.items())): the keyword arguments ordered by name
sorted_kwargs(kwargs) ==
    CHOOSE o \in {[i \in 1..Len(kwargs) |-> kwargs[q[i]]] :
                     q \in {r \in [1..Len(kwargs) -> 1..Len(kwargs)] :
                              \A i \in 1..Len(kwargs) : \A j \in 1..Len(kwargs) :
                                 i # j => r[i] # r[j]}} :
        \A i \in 1..Len(o) : \A j \in 1..Len(o) : i < j => StrLess(o[i].name, o[j].name)

\* json.dumps of a dict with str keys, in the dict's order
json_dumps_dict(items) ==
    <<"{">> \o Join([i \in 1..Len(items) |->
                       <<"\"">> \o items[i].name \o <<"\"", ":", " ">>
                          \o json_dumps(items[i].value)],
                    <<",", " ">>)
        \o <<"}">>

\* the cache key the wrapper builds from its arguments
cache_key(args, kwargs) ==
    Join((IF args # <<>> THEN <<repr(PyTuple(args))>> ELSE <<>>)
            \o (IF kwargs # <<>> THEN <<json_dumps_dict(sorted_kwargs(kwargs))>> ELSE <<>>),
         <<"|">>)

\* the decorators made by calls of cache_data(ttl), with their ttl in
\* seconds, and the wrappers made by applying them to functions: d1 is
\* applied to two functions, d2 and d3 to one each
Decorators == {"d1", "d2", "d3"}
DecoratorTtl == [d \in Decorators |-> 1]
Wrappers ==
    {[dec |-> "d1", func |-> "func1"],
     [dec |-> "d1", func |-> "func2"],
     [dec |-> "d2", func |-> "func2"],
     [dec |-> "d3", func |-> "failing_func"]}

\* what a call passes: positional arguments and keyword arguments as written
\* at the call site; as a combination the keyword arguments have no order
ArgCombination(a) ==
    [args |-> a.args, kwargs |-> {a.kwargs[i] : i \in 1..Len(a.kwargs)}]

\* the wrapped functions: failing_func raises, the others return a value
\* that names the function and the arguments it was computed for
func_raises(f) == f = "failing_func"
func_value(f, a) == [by |-> f, of |-> ArgCombination(a)]

\* one call of a wrapper: the dictionary afterwards and the record of the call
wrapper(w, a, dict, time) ==
    IF cache_key(a.args, a.kwargs) \in DOMAIN dict
    THEN [dict |-> dict,
          rec |-> [wrapper |-> w, input |-> a, time |-> time, invoked |-> FALSE,
                   raised |-> FALSE, ret |-> dict[cache_key(a.args, a.kwargs)]]]
    ELSE IF func_raises(w.func)
    THEN [dict |-> dict,
          rec |-> [wrapper |-> w, input |-> a, time |-> time, invoked |-> TRUE,
                   raised |-> TRUE, ret |-> Null]]
    ELSE [dict |-> dict @@ (cache_key(a.args, a.kwargs) :> func_value(w.func, a)),
          rec |-> [wrapper |-> w, input |-> a, time |-> time, invoked |-> TRUE,
                   raised |-> FALSE, ret |-> func_value(w.func, a)]]

\* nothing cached and no call made yet
NoCachedCalls ==
    /\ cache = [d \in Decorators |-> <<>>]
    /\ now = 0
    /\ trace = <<>>

(***************************************************************************)
(* src/src/utils/retry.py                                                  *)
(***************************************************************************)
\* the argument of time.sleep after the failed attempt number attempt
backoff_constant(delay, attempt) == delay
backoff(delay, attempt) == delay * (2 ^ attempt)

\* time.sleep(secs) raises ValueError for a negative length
sleep_raises(secs) == secs < 0

\* the for loop of the wrapper from attempt number attempt on; outcomes[k]
\* tells whether the k-th invocation of the function returns or raises, and
\* sleeps are the sleeps made so far.  The exception of an invocation is
\* named by the number of its attempt.
RECURSIVE retry_loop(_, _, _, _, _)
retry_loop(attempt, attempts, delay, outcomes, sleeps) ==
    IF attempt = attempts
    THEN [invocations |-> attempts, sleeps |-> sleeps,
          result |-> [kind |-> "raised", by |-> "func", attempt |-> attempts - 1]]
    ELSE IF outcomes[attempt + 1] = "ok"
    THEN [invocations |-> attempt + 1, sleeps |-> sleeps,
          result |-> [kind |-> "returned", by |-> "func", attempt |-> attempt]]
    ELSE IF attempt < attempts - 1
    THEN IF sleep_raises(backoff(delay, attempt))
         THEN [invocations |-> attempt + 1, sleeps |-> sleeps,
               result |-> [kind |-> "raised", by |-> "sleep", attempt |-> attempt]]
         ELSE retry_loop(attempt + 1, attempts, delay, outcomes,
                         Append(sleeps, backoff(delay, attempt)))
    ELSE retry_loop(attempt + 1, attempts, delay, outcomes, sleeps)

\* one call of a function wrapped with retry(max_attempts, delay)
retry(max_attempts, delay, outcomes) ==
    retry_loop(0, IF max_attempts > 1 THEN max_attempts ELSE 1, delay, outcomes, <<>>)

(***************************************************************************)
(* Inputs: the CSV files and in-memory tables the pipeline is run on       *)
(***************************************************************************)
AllCols == {"Issue key", "Created", "Resolved", "Status", "Story Points", "Sprint", "Epic Name"}

\* the rows input tables are built from
Pool == <<
    [c \in AllCols |->
        IF c = "Issue key" THEN S(<<"K","1">>)
        ELSE IF c = "Created" THEN S(<<"2","0","2","4","-","0","1","-","0","1">>)
        ELSE IF c = "Resolved" THEN S(<<"2","0","2","4","-","0","1","-","0","3">>)
        ELSE IF c = "Status" THEN S(<<"D","o","n","e">>)
        ELSE IF c = "Story Points" THEN N(3)
        ELSE IF c = "Sprint" THEN S(<<"S","p","r","i","n","t"," ","2","1">>)
        ELSE S(<<"E","1">>)],
    [c \in AllCols |->
        IF c = "Issue key" THEN S(<<"K","2">>)
        ELSE IF c = "Created" THEN S(<<"2","0","2","4","-","0","1","-","0","2">>)
        ELSE IF c = "Resolved" THEN Null
        ELSE IF c = "Status" THEN S(<<"I","n"," ","P","r","o","g","r","e","s","s">>)
        ELSE IF c = "Story Points" THEN N(5)
        ELSE IF c = "Sprint" THEN S(<<"S","p","r","i","n","t"," ","2","1">>)
        ELSE S(<<"E","1">>)],
    [c \in AllCols |->
        IF c = "Issue key" THEN S(<<"K","3">>)
        ELSE IF c = "Created" THEN S(<<"2","0","2","4","-","0","1","-","0","1">>)
        ELSE IF c = "Resolved" THEN S(<<"2","0","2","4","-","0","1","-","0","2">>)
        ELSE IF c = "Status" THEN S(<<"R","e","s","o","l","v","e","d">>)
        ELSE IF c = "Story Points" THEN N(2)
        ELSE IF c = "Sprint" THEN S(<<"S","p","r","i","n","t"," ","2","0">>)
        ELSE S(<<"E","2">>)],
    [c \in AllCols |->
        IF c = "Issue key" THEN S(<<"K","4">>)
        ELSE IF c = "Created" THEN S(<<"2","0","2","4","-","0","1","-","0","2">>)
        ELSE IF c = "Resolved" THEN Null
        ELSE IF c = "Status" THEN S(<<"S","T","O","R","Y"," ","D","O","N","E">>)
        ELSE IF c = "Story Points" THEN N(1)
        ELSE IF c = "Sprint" THEN S(<<"S","p","r","i","n","t"," ","2","0">>)
        ELSE S(<<"E","1">>)],
    [c \in AllCols |->
        IF c = "Issue key" THEN S(<<"K","5">>)
        ELSE IF c = "Created" THEN S(<<"2","0","2","4","-","0","1","-","0","1">>)
        ELSE IF c = "Resolved" THEN Null
        ELSE IF c = "Status" THEN S(<<" ","D","o","n","e"," ">>)
        ELSE IF c = "Story Points" THEN Null
        ELSE IF c = "Sprint" THEN S(<<"S","p","r","i","n","t"," ","2","1">>)
        ELSE S(<<"E","2">>)],
    [c \in AllCols |->
        IF c = "Issue key" THEN S(<<"K","6">>)
        ELSE IF c = "Created" THEN S(<<"i","n","v","a","l","i","d","_","d","a","t","e">>)
        ELSE IF c = "Resolved" THEN Null
        ELSE IF c = "Status" THEN S(<<"b","l","o","c","k","e","d">>)
        ELSE IF c = "Story Points" THEN S(<<"a","b","c">>)
        ELSE IF c = "Sprint" THEN Null
        ELSE Null],
    [c \in AllCols |->
        IF c = "Issue key" THEN S(<<"K","7">>)
        ELSE IF c = "Created" THEN S(<<"2","0","2","4","-","0","1","-","0","1">>)
        ELSE IF c = "Resolved" THEN Null
        ELSE IF c = "Status" THEN S(<<"T","o"," ","D","o">>)
        ELSE IF c = "Story Points" THEN N(0)
        ELSE IF c = "Sprint" THEN S(<<"S","p","r","i","n","t"," ","2","0">>)
        ELSE S(<<"E","2">>)],
    [c \in AllCols |->
        IF c = "Issue key" THEN Null
        ELSE IF c = "Created" THEN S(<<"2","0","2","4","-","0","1","-","0","2">>)
        ELSE IF c = "Resolved" THEN S(<<"2","0","2","4","-","0","1","-","0","4">>)
        ELSE IF c = "Status" THEN Null
        ELSE IF c = "Story Points" THEN N(4)
        ELSE IF c = "Sprint" THEN S(<<"S","p","r","i","n","t"," ","2","1",","," ","S","p","r","i","n","t"," ","2","2">>)
        ELSE S(<<"E","1">>)],
    [c \in AllCols |->
        IF c = "Issue key" THEN S(<<"K","9">>)
        ELSE IF c = "Created" THEN S(<<"2","0","2","4","-","0","1","-","0","2">>)
        ELSE IF c = "Resolved" THEN Null
        ELSE IF c = "Status" THEN S(<<"D","o","n","e">>)
        ELSE IF c = "Story Points" THEN N(2)
        ELSE IF c = "Sprint" THEN S(<<","," ","S","p","r","i","n","t"," ","2","2">>)
        ELSE Null]
>>

\* a table has all columns or lacks exactly one of them
ColSets == {AllCols} \cup {AllCols \ {c} : c \in AllCols}

\* at most MaxRows pool rows, in pool order
RowChoices ==
    {ix \in UNION {[1..n -> 1..Len(Pool)] : n \in 0..MaxRows} :
        \A i \in 1..Len(ix) : \A j \in 1..Len(ix) : i < j => ix[i] <= ix[j]}

MakeTable(cs, ix) ==
    [cols |-> cs, rows |-> [i \in 1..Len(ix) |-> [c \in cs |-> Pool[ix[i]][c]]]]

Tables == {MakeTable(cs, ix) : cs \in ColSets, ix \in RowChoices}

Files ==
    {[exists |-> FALSE, parses |-> FALSE, table |-> EmptyDF],
     [exists |-> TRUE, parses |-> FALSE, table |-> EmptyDF]}
    \cup {[exists |-> TRUE, parses |-> TRUE, table |-> t] : t \in Tables}

s_Sprint_21 == <<"S","p","r","i","n","t"," ","2","1">>
s_Sprint_20 == <<"S","p","r","i","n","t"," ","2","0">>
s_Sprint_99 == <<"S","p","r","i","n","t"," ","9","9">>

\* the sprint names a caller selects
CurrentSprintArgs == {S(s_Sprint_21), S(s_Sprint_99)}
PreviousSprintArgs == {Null, S(s_Sprint_20), S(s_Sprint_99)}

(***************************************************************************)
(* The state machine: one action per call into the pipeline                *)
(***************************************************************************)
Init ==
    /\ csv \in Files
    /\ df = EmptyDF
    /\ call = [op |-> "none"]
    /\ NoCachedCalls

\* load_data(path)
LoadData ==
    LET r == load_data(csv)
    IN  /\ df' = r.ret
        /\ call' = [op |-> "load_data", ret |-> r.ret, errs |-> r.errs, raised |-> r.raised]
        /\ UNCHANGED <<csv, cache, now, trace>>

\* a caller builds the DataFrame itself (an upload, a test fixture)
PassFrame ==
    /\ csv.exists /\ csv.parses
    /\ df' = csv.table
    /\ call' = [op |-> "frame"]
    /\ UNCHANGED <<csv, cache, now, trace>>

\* prepare_data(df)
PrepareData ==
    LET r == prepare_data(df)
    IN  /\ df' = r.ret
        /\ call' = [op |-> "prepare_data", arg |-> df, ret |-> r.ret, errs |-> r.errs,
                    raised |-> r.raised]
        /\ UNCHANGED <<csv, cache, now, trace>>

\* get_sprint_metrics(df, current_sprint, previous_sprint)
GetSprintMetrics ==
    \E cur \in CurrentSprintArgs, prev \in PreviousSprintArgs :
        /\ call' = [op |-> "get_sprint_metrics", arg |-> df, current_sprint |-> cur,
                    previous_sprint |-> prev, ret |-> get_sprint_metrics(df, cur, prev)]
        /\ UNCHANGED <<csv, df, cache, now, trace>>

\* get_sprint_metrics(None, ...)
GetSprintMetricsNone ==
    /\ call' = [op |-> "get_sprint_metrics", arg |-> NoneTable,
                current_sprint |-> S(s_Sprint_21), previous_sprint |-> Null,
                ret |-> get_sprint_metrics(NoneTable, S(s_Sprint_21), Null)]
    /\ UNCHANGED <<csv, df, cache, now, trace>>

\* calculate_metrics(df)
CalculateMetrics ==
    /\ call' = [op |-> "calculate_metrics", arg |-> df, ret |-> calculate_metrics(df)]
    /\ UNCHANGED <<csv, df, cache, now, trace>>

\* calculate_velocity_metrics(df)
CalculateVelocityMetrics ==
    /\ call' = [op |-> "calculate_velocity_metrics", arg |-> df,
                ret |-> calculate_velocity_metrics(df)]
    /\ UNCHANGED <<csv, df, cache, now, trace>>

\* calculate_velocity_metrics(None)
CalculateVelocityMetricsNone ==
    /\ call' = [op |-> "calculate_velocity_metrics", arg |-> NoneTable,
                ret |-> calculate_velocity_metrics(NoneTable)]
    /\ UNCHANGED <<csv, df, cache, now, trace>>

\* show_epic_progress(df)
ShowEpicProgress ==
    LET r == show_epic_progress(df)
    IN  /\ df' = r.data
        /\ call' = [op |-> "show_epic_progress", arg |-> df, ret |-> r]
        /\ UNCHANGED <<csv, cache, now, trace>>

\* JiraDataProcessor(df).get_sprint_metrics()
ProcessorGetSprintMetrics ==
    LET r == processor_get_sprint_metrics(df)
    IN  /\ df' = r.df
        /\ call' = [op |-> "processor_get_sprint_metrics", arg |-> df, ret |-> r]
        /\ UNCHANGED <<csv, cache, now, trace>>

Next ==
    \/ LoadData
    \/ PassFrame
    \/ PrepareData
    \/ GetSprintMetrics
    \/ GetSprintMetricsNone
    \/ CalculateMetrics
    \/ CalculateVelocityMetrics
    \/ CalculateVelocityMetricsNone
    \/ ShowEpicProgress
    \/ ProcessorGetSprintMetrics

Spec == Init /\ [][Next]_vars

(***************************************************************************)
(* extract_sprint_number on its own: the sprint texts it is applied to     *)
(***************************************************************************)
NamePrefixes == {<<>>, <<"B","P",":"," ","E","F","D","D","H"," ">>, <<"N","o"," ">>, <<"V","2"," ">>}
NameWords == {s_Sprint, <<"s","p","r","i","n","t">>}
NameGaps == {<<>>, <<" ">>, <<" "," ">>}
NameDigits == {<<>>, <<"7">>, <<"2","1">>, <<"0","0","7">>}
NameSuffixes == {<<>>, <<"b">>, <<" ","S","p","r","i","n","t"," ","3">>,
                 <<","," ","S","p","r","i","n","t"," ","2","2">>}

\* the values handed to extract_sprint_number: texts, a blank text, a missing
\* value and a number
SprintNameInputs ==
    {S(p \o w \o g \o d \o x) :
        p \in NamePrefixes, w \in NameWords, g \in NameGaps, d \in NameDigits, x \in NameSuffixes}
    \cup {S(<<>>), S(<<" ">>), Null, N(21)}

NoFile == [exists |-> FALSE, parses |-> FALSE, table |-> EmptyDF]

ExtractInit ==
    /\ csv = NoFile
    /\ df = EmptyDF
    /\ call = [op |-> "none"]
    /\ NoCachedCalls

\* extract_sprint_number(sprint_str)
ExtractSprintNumber ==
    \E c \in SprintNameInputs :
        /\ call' = [op |-> "extract_sprint_number", arg |-> c, ret |-> extract_sprint_number(c)]
        /\ UNCHANGED <<csv, df, cache, now, trace>>

ExtractNext == ExtractSprintNumber

ExtractSpec == ExtractInit /\ [][ExtractNext]_vars

(***************************************************************************)
(* The sprint selection functions on tables of sprint names                *)
(***************************************************************************)
MaxSprintRows == 2

s_BP_Sprint_21 == s_BP_EFDDH_Sprint \o <<" ","2","1">>
s_BP_Sprint_22 == s_BP_EFDDH_Sprint \o <<" ","2","2">>
s_BP_Sprint_9 == s_BP_EFDDH_Sprint \o <<" ","9">>

\* the Sprint cells of the tables
SprintCells ==
    {Null, S(s_BP_Sprint_21), S(s_BP_Sprint_22), S(s_BP_Sprint_9),
     S(s_BP_Sprint_21 \o <<"b">>),
     S(s_BP_Sprint_21 \o <<",", " ">> \o s_BP_Sprint_22),
     S(s_No_Sprint),
     S(<<"S","p","r","i","n","t"," ","3","0">>)}

\* tables with and without a Sprint column, none with a Sprint Number yet
SprintTables ==
    {[cols |-> cs,
      rows |-> [i \in 1..Len(cells) |->
                   [c \in cs |-> IF c = "Sprint" THEN cells[i] ELSE S(<<"K","1">>)]]] :
        cs \in {{"Issue key", "Sprint"}, {"Issue key"}},
        cells \in UNION {[1..n -> SprintCells] : n \in 0..MaxSprintRows}}

SprintInit ==
    /\ csv = NoFile
    /\ df \in SprintTables
    /\ call = [op |-> "none"]
    /\ NoCachedCalls

\* process_jira_data(df)
ProcessJiraData ==
    /\ df' = process_jira_data(df)
    /\ call' = [op |-> "process_jira_data", arg |-> df, ret |-> process_jira_data(df)]
    /\ UNCHANGED <<csv, cache, now, trace>>

\* get_available_sprints(df)
GetAvailableSprints ==
    LET r == get_available_sprints(df)
    IN  /\ IF r.raised
           THEN call' = [op |-> "get_available_sprints", arg |-> df, ret |-> <<>>,
                         raised |-> TRUE]
           ELSE \E ret \in r.rets :
                   call' = [op |-> "get_available_sprints", arg |-> df, ret |-> ret,
                            raised |-> FALSE]
        /\ UNCHANGED <<csv, df, cache, now, trace>>

\* get_available_sprints(None)
GetAvailableSprintsNone ==
    /\ call' = [op |-> "get_available_sprints", arg |-> NoneTable,
                ret |-> CHOOSE ret \in get_available_sprints(NoneTable).rets : TRUE,
                raised |-> get_available_sprints(NoneTable).raised]
    /\ UNCHANGED <<csv, df, cache, now, trace>>

\* get_current_sprint(df)
GetCurrentSprint ==
    /\ call' = [op |-> "get_current_sprint", arg |-> df, ret |-> get_current_sprint(df)]
    /\ UNCHANGED <<csv, df, cache, now, trace>>

\* get_current_sprint() and get_current_sprint(None)
GetCurrentSprintNone ==
    /\ call' = [op |-> "get_current_sprint", arg |-> NoneTable,
                ret |-> get_current_sprint(NoneTable)]
    /\ UNCHANGED <<csv, df, cache, now, trace>>

SprintNext ==
    \/ ProcessJiraData
    \/ GetAvailableSprints
    \/ GetAvailableSprintsNone
    \/ GetCurrentSprint
    \/ GetCurrentSprintNone

SprintSpec == SprintInit /\ [][SprintNext]_vars
(***************************************************************************)
(* The chart functions on tables of epics and assignees                    *)
(***************************************************************************)
MaxChartRows == 2

ChartCols == {"Epic Name", "Assignee", "Status", "Story Points"}

s_E1 == <<"E","1">>
s_Ann == <<"A","n","n">>
s_Bob == <<"B","o","b">>

ChartRow(epic, assignee, status, points) ==
    [c \in ChartCols |->
        IF c = "Epic Name" THEN epic
        ELSE IF c = "Assignee" THEN assignee
        ELSE IF c = "Status" THEN status
        ELSE points]

\* the rows the chart tables are built from
ChartPool == <<
    ChartRow(S(s_E1), S(s_Ann), S(s_Done), N(1)),
    ChartRow(S(s_E1), S(s_Ann), S(s_Done), N(0)),
    ChartRow(S(s_E1), S(s_Bob), S(s_To_Do), N(3)),
    ChartRow(S(s_E1), S(s_Ann), S(s_In_Progress), N(1)),
    ChartRow(Null, S(s_Bob), S(s_Resolved), N(2)),
    ChartRow(S(s_E1), Null, S(s_To_Do), Null),
    ChartRow(S(s_E1), S(s_Ann), S(s_To_Do), N(3))
>>

\* a chart table has all four columns or lacks exactly one of them
ChartColSets == {ChartCols} \cup {ChartCols \ {c} : c \in ChartCols}

\* at most MaxChartRows pool rows, in pool order
ChartRowChoices ==
    {ix \in UNION {[1..n -> 1..Len(ChartPool)] : n \in 0..MaxChartRows} :
        \A i \in 1..Len(ix) : \A j \in 1..Len(ix) : i < j => ix[i] <= ix[j]}

ChartTables ==
    {[cols |-> cs, rows |-> [i \in 1..Len(ix) |-> [c \in cs |-> ChartPool[ix[i]][c]]]] :
        cs \in ChartColSets, ix \in ChartRowChoices}

ChartInit ==
    /\ csv = NoFile
    /\ df \in ChartTables
    /\ call = [op |-> "none"]
    /\ NoCachedCalls

\* show_capacity_management(df)
ShowCapacityManagement ==
    /\ df' = show_capacity_management(df).data
    /\ \E w \in show_capacity_management(df).workloads :
          call' = [op |-> "show_capacity_management", arg |-> df,
                   ret |-> [workload |-> w,
                            metrics |-> show_capacity_management(df).metrics,
                            errs |-> show_capacity_management(df).errs]]
    /\ UNCHANGED <<csv, cache, now, trace>>

\* show_capacity_management(None)
ShowCapacityManagementNone ==
    /\ call' = [op |-> "show_capacity_management", arg |-> NoneTable,
                ret |-> [workload |-> <<>>,
                         metrics |-> show_capacity_management(NoneTable).metrics,
                         errs |-> show_capacity_management(NoneTable).errs]]
    /\ UNCHANGED <<csv, df, cache, now, trace>>

ChartNext ==
    \/ ShowCapacityManagement
    \/ ShowCapacityManagementNone
    \/ ShowEpicProgress

ChartSpec == ChartInit /\ [][ChartNext]_vars

(***************************************************************************)
(* Calls through cache_data wrappers while time passes                     *)
(***************************************************************************)
MaxCalls == 3
MaxClock == 2

\* the arguments of the calls
CacheInputs ==
    {[args |-> <<S(<<"x">>)>>, kwargs |-> <<>>],
     [args |-> <<N(1), N(2)>>,
      kwargs |-> <<[name |-> <<"a">>, value |-> S(<<"x">>)],
                   [name |-> <<"b">>, value |-> S(<<"y">>)]>>],
     [args |-> <<N(1), N(2)>>,
      kwargs |-> <<[name |-> <<"b">>, value |-> S(<<"y">>)],
                   [name |-> <<"a">>, value |-> S(<<"x">>)]>>],
     [args |-> <<>>, kwargs |-> <<[name |-> <<"v">>, value |-> PyList(<<N(1), N(2)>>)]>>],
     [args |-> <<>>, kwargs |-> <<[name |-> <<"v">>, value |-> PyTuple(<<N(1), N(2)>>)]>>]}

CacheInit ==
    /\ csv = NoFile
    /\ df = EmptyDF
    /\ call = [op |-> "none"]
    /\ NoCachedCalls

\* a call of one of the wrappers
CachedCall ==
    \E w \in Wrappers : \E a \in CacheInputs :
        /\ Len(trace) < MaxCalls
        /\ cache' = [cache EXCEPT ![w.dec] = wrapper(w, a, cache[w.dec], now).dict]
        /\ trace' = Append(trace, wrapper(w, a, cache[w.dec], now).rec)
        /\ UNCHANGED <<csv, df, call, now>>

\* a second passes
Tick ==
    /\ now < MaxClock
    /\ now' = now + 1
    /\ UNCHANGED <<csv, df, call, cache, trace>>

CacheNext ==
    \/ CachedCall
    \/ Tick

CacheSpec == CacheInit /\ [][CacheNext]_vars

(***************************************************************************)
(* Calls of a function wrapped with retry                                  *)
(***************************************************************************)
MaxAttempts == 3

\* the decorator's arguments and the behaviour of the wrapped function
RetryMaxAttempts == (0 - 1)..MaxAttempts
RetryDelays == {0 - 1, 0, 1, 2}
RetryOutcomes == [1..MaxAttempts -> {"ok", "fail"}]

RetryInit ==
    /\ csv = NoFile
    /\ df = EmptyDF
    /\ call = [op |-> "none"]
    /\ NoCachedCalls

\* a call of the wrapped function
RetryCall ==
    \E m \in RetryMaxAttempts : \E d \in RetryDelays : \E o \in RetryOutcomes :
        /\ call' = [op |-> "retry",
                    arg |-> [max_attempts |-> m, delay |-> d, outcomes |-> o],
                    ret |-> retry(m, d, o)]
        /\ UNCHANGED <<csv, df, cache, now, trace>>

RetryNext == RetryCall

RetrySpec == RetryInit /\ [][RetryNext]_vars

(***************************************************************************)
(* The page entry points: src/src/pages/1_*_Analytics.py,                  *)
(* src/src/pages/2_*_Capacity.py and src/src/streamlit_app.py              *)
(***************************************************************************)
MsgAnalyticsLoadFailed == "Failed to load data from CSV file"
MsgAnalyticsPrepareFailed == "Failed to prepare data for analysis"
MsgCapacityNoData == "No data available for capacity analysis"
MsgCapacityPrepareFailed == "Failed to prepare data for capacity analysis"
MsgAppError == "An error occurred"

\* a run of a page: the data functions it called in order, the messages the
\* page itself gave to st.error, and whether it ended in st.stop()
PageRun(log, errs, stopped) == [log |-> log, errs |-> errs, stopped |-> stopped]

\* the Analytics page
analytics_page(f) ==
    IF IsEmpty(load_data(f).ret)
    THEN PageRun(<<"load_data">>, <<MsgAnalyticsLoadFailed>>, TRUE)
    ELSE IF IsEmpty(prepare_data(load_data(f).ret).ret)
    THEN PageRun(<<"load_data", "prepare_data">>, <<MsgAnalyticsPrepareFailed>>, TRUE)
    ELSE PageRun(<<"load_data", "prepare_data", "show_analytics">>, <<>>, FALSE)

\* the Capacity page
capacity_page(f) ==
    IF IsEmpty(load_data(f).ret)
    THEN PageRun(<<"load_data">>, <<MsgCapacityNoData>>, TRUE)
    ELSE IF IsEmpty(prepare_data(load_data(f).ret).ret)
    THEN PageRun(<<"load_data", "prepare_data">>, <<MsgCapacityPrepareFailed>>, TRUE)
    ELSE PageRun(<<"load_data", "prepare_data", "show_capacity_management">>, <<>>, FALSE)

\* the sidebar filters of streamlit_app read these columns of the prepared
\* table and the dates of its Created column; a table without them raises
FiltersRaise(t) ==
    \/ ~({"Created", "Priority", "Issue Type", "Sprint"} \subseteq t.cols)
    \/ \E i \in 1..Len(t.rows) : t.rows[i]["Created"].t # "date"

\* tab 1 of streamlit_app: load_data never returns None, so prepare_data is
\* always called; an exception of the filters is reported without st.stop();
\* what the date filter does with a prepared table that has no rows is left
\* open
streamlit_app(f) ==
    IF FiltersRaise(prepare_data(load_data(f).ret).ret)
    THEN {PageRun(<<"load_data", "prepare_data">>, <<MsgAppError>>, FALSE)}
    ELSE {PageRun(<<"load_data", "prepare_data", "show_charts", "show_velocity_metrics",
                    "show_epic_progress">>, <<>>, FALSE)}
         \cup (IF prepare_data(load_data(f).ret).ret.rows = <<>>
               THEN {PageRun(<<"load_data", "prepare_data">>, <<MsgAppError>>, FALSE)}
               ELSE {})

s_High == <<"H","i","g","h">>

\* a file with the Priority and Issue Type columns of a Jira export
ExportFiles ==
    {[exists |-> TRUE, parses |-> TRUE,
      table |-> [cols |-> AllCols \cup {"Priority", "Issue Type"},
                 rows |-> [i \in 1..Len(ix) |->
                             [c \in AllCols \cup {"Priority", "Issue Type"} |->
                                 IF c = "Priority" THEN S(s_High)
                                 ELSE IF c = "Issue Type" THEN S(s_Story)
                                 ELSE Pool[ix[i]][c]]]]] :
        ix \in RowChoices}

PageFiles == Files \cup ExportFiles

PageInit ==
    /\ csv \in PageFiles
    /\ df = EmptyDF
    /\ call = [op |-> "none"]
    /\ NoCachedCalls

\* the Analytics page runs
RunAnalyticsPage ==
    /\ call' = [op |-> "Analytics page", arg |-> csv, ret |-> analytics_page(csv)]
    /\ UNCHANGED <<csv, df, cache, now, trace>>

\* the Capacity page runs
RunCapacityPage ==
    /\ call' = [op |-> "Capacity page", arg |-> csv, ret |-> capacity_page(csv)]
    /\ UNCHANGED <<csv, df, cache, now, trace>>

\* streamlit_app runs
RunStreamlitApp ==
    /\ \E r \in streamlit_app(csv) :
          call' = [op |-> "streamlit_app", arg |-> csv, ret |-> r]
    /\ UNCHANGED <<csv, df, cache, now, trace>>

PageNext ==
    \/ RunAnalyticsPage
    \/ RunCapacityPage
    \/ RunStreamlitApp

PageSpec == PageInit /\ [][PageNext]_vars


(***************************************************************************)
(* Properties                                                              *)
(***************************************************************************)
s_STORY_DONE == <<"S","T","O","R","Y"," ","D","O","N","E">>
s_blocked == <<"b","l","o","c","k","e","d">>

\* the category the fixed table gives a status when it is matched
\* case-insensitively after trimming
TableCategory(s) ==
    LET hits == {k \in DOMAIN status_map : Lower(k) = Lower(Strip(s))}
    IN  IF hits = {} THEN "Other" ELSE status_map[CHOOSE k \in hits : TRUE]

\* the rows whose lower-cased status is one of the seven completion keywords
CompletedByKeywords(rs) ==
    SelectSeq(rs, LAMBDA r : Lower(PyStr(r["Status"])) \in CompletedKeywords7)

PreparedRows == IF call.op = "prepare_data" THEN {call.ret.rows[i] : i \in 1..Len(call.ret.rows)} ELSE {}

\* C1: every row prepared by process_jira_data carries the category that the
\* fixed table gives its trimmed status under case-insensitive matching;
\* "STORY DONE" is Done and completed, "blocked" is Other and not completed.
C1_StatusCategoryCaseInsensitive ==
    \A r \in PreparedRows :
        "Status" \in DOMAIN r =>
            /\ r["Status Category"] = Cat(TableCategory(r["Status"].s))
            /\ (r["Status"] = S(s_STORY_DONE) =>
                    r["Status Category"] = Cat("Done") /\ r["Completed"] = B(TRUE))
            /\ (r["Status"] = S(s_blocked) =>
                    r["Status Category"] = Cat("Other") /\ r["Completed"] = B(FALSE))

\* C2: in every prepared table, a row is flagged Completed exactly when its
\* Status Category is Done.
C2_CompletedIffDone ==
    \A r \in PreparedRows :
        "Status" \in DOMAIN r =>
            (r["Completed"] = B(TRUE) <=> r["Status Category"] = Cat("Done"))

\* C3: every operation that counts completed issues reports, for the table it
\* was given, the number of rows whose lower-cased status is one of the seven
\* completion keywords.
C3_OneCompletedPredicate ==
    /\ (call.op = "calculate_metrics" /\ ~call.ret.raised /\ ~IsEmpty(call.arg)
            => call.ret.current.completed = Len(CompletedByKeywords(call.arg.rows)))
    /\ (call.op = "calculate_velocity_metrics"
        /\ validate_data(call.arg, {"Status", "Story Points"})
        /\ ~SumRaises(call.arg.rows, "Story Points")
            => call.ret.completed = Len(CompletedByKeywords(call.arg.rows)))

\* C4: the completion rate reported by calculate_metrics and by
\* JiraDataProcessor.get_sprint_metrics is 100 * completed / rows (0 for an
\* empty table), whichever optional columns the table has.
C4_CompletionRate ==
    (/\ call.op \in {"calculate_metrics", "processor_get_sprint_metrics"}
     /\ ~call.ret.raised
     /\ (IsEmpty(call.arg) \/ "Status" \in call.arg.cols))
        => LET rate == IF call.op = "calculate_metrics"
                       THEN call.ret.current.completion_rate
                       ELSE call.ret.completion_rate
           IN  IF IsEmpty(call.arg) THEN RatIsZero(rate)
               ELSE RatEq(rate, Rat(100 * Len(CompletedByKeywords(call.arg.rows)),
                                    Len(call.arg.rows)))

\* C5: the deltas get_sprint_metrics returns are (current - previous) /
\* previous * 100 of the current and previous values it returns, and 0 when
\* the previous value is 0 or no previous sprint is given; 10, 7, 28 against
\* 8, 5, 15 give 25, 40 and 86.67.
C5_DeltaPercentage ==
    /\ RatEq(calculate_delta_percentage(10, 8), Rat(25, 1))
    /\ RatEq(calculate_delta_percentage(7, 5), Rat(40, 1))
    /\ LET d == calculate_delta_percentage(28, 15)
       IN  RoundDiv(100 * d.num, d.den) = 8667
    /\ call.op = "get_sprint_metrics" =>
        \A f \in MetricFields :
            LET cur == call.ret.current[f]
                prev == call.ret.previous[f]
                d == call.ret.deltas[f]
            IN  /\ (IsNull(call.previous_sprint) \/ prev = 0) => RatIsZero(d)
                /\ (~call.ret.failed /\ ~IsNull(call.previous_sprint) /\ prev # 0)
                        => d.den # 0 /\ d.num * prev = (cur - prev) * 100 * d.den

\* a comparison against a previous sprint with story points gave a non-zero delta
C5_Witness ==
    /\ call.op = "get_sprint_metrics"
    /\ ~call.ret.failed
    /\ call.ret.previous["story_points"] # 0
    /\ call.ret.deltas["story_points"].num # 0

\* C6: for a None, empty or malformed table (one without the Sprint, Status
\* or Story Points column) get_sprint_metrics returns the all-zero default.
C6_ZeroDefaultOnMalformed ==
    (/\ call.op = "get_sprint_metrics"
     /\ \/ IsNone(call.arg)
        \/ IsEmpty(call.arg)
        \/ ~({"Sprint", "Status", "Story Points"} \subseteq call.arg.cols))
        => /\ \A f \in MetricFields : call.ret.current[f] = 0 /\ call.ret.previous[f] = 0
           /\ \A f \in MetricFields : RatIsZero(call.ret.deltas[f])

\* the Story Points of the rows of rs that are completed by the seven keywords
CompletedPoints(rs) == SumCol(CompletedByKeywords(rs), "Story Points")

\* C7: for every epic of the table, the epic-progress computation reports
\* completed story points / total story points * 100, and 0 when the epic's
\* total is 0.
C7_EpicProgressByPoints ==
    (/\ call.op = "show_epic_progress"
     /\ validate_data(call.arg, {"Epic Name", "Story Points", "Status"})
     /\ ~LowerRaises(call.arg.rows)
     /\ ~SumRaises(call.arg.rows, "Story Points"))
        => \A i \in 1..Len(call.arg.rows) :
              LET e == call.arg.rows[i]["Epic Name"]
                  group == SelectSeq(call.arg.rows, LAMBDA r : r["Epic Name"] = e)
                  total == SumCol(group, "Story Points")
              IN  ~IsNull(e) =>
                    /\ e \in DOMAIN call.ret.epic_data
                    /\ IF total = 0 THEN RatIsZero(call.ret.epic_data[e].progress)
                       ELSE RatEq(call.ret.epic_data[e].progress,
                                  Rat(100 * CompletedPoints(group), total))

\* C8: load_data never raises; a missing file, a file without a required
\* column and a file without data rows each give an empty table and exactly
\* one error message, and the three messages differ.
C8_LoadFailures ==
    /\ Cardinality({MsgFileNotFound, MsgMissingColumns, MsgNoData}) = 3
    /\ call.op = "load_data" =>
        /\ ~call.raised
        /\ ~csv.exists => call.ret = EmptyDF /\ call.errs = <<MsgFileNotFound>>
        /\ (csv.exists /\ ~csv.parses) => call.ret = EmptyDF /\ Len(call.errs) = 1
        /\ (csv.exists /\ csv.parses /\ ~(required_columns \subseteq csv.table.cols))
                => call.ret = EmptyDF /\ call.errs = <<MsgMissingColumns>>
        /\ (csv.exists /\ csv.parses /\ required_columns \subseteq csv.table.cols
            /\ csv.table.rows = <<>>)
                => call.ret = EmptyDF /\ call.errs = <<MsgNoData>>
        /\ (csv.exists /\ csv.parses /\ required_columns \subseteq csv.table.cols
            /\ csv.table.rows # <<>>)
                => call.ret = csv.table /\ call.errs = <<>>

\* load_data met a file that has the required columns and no rows
C8_Witness ==
    /\ call.op = "load_data"
    /\ csv.exists /\ csv.parses
    /\ required_columns \subseteq csv.table.cols
    /\ csv.table.rows = <<>>
    /\ call.errs = <<MsgNoData>>

\* a Created cell that is a text and no date
Unparseable(c) == c.t = "str" /\ to_datetime(c) = Null

\* C9: prepare_data keeps a row that has an Issue key and an unparseable
\* Created value: the output is non-empty and holds that row with Created
\* absent.
C9_InvalidDateRowKept ==
    (call.op = "prepare_data" /\ {"Issue key", "Created"} \subseteq call.arg.cols)
        => \A i \in 1..Len(call.arg.rows) :
              LET r == call.arg.rows[i]
              IN  (~IsNull(r["Issue key"]) /\ Unparseable(r["Created"]))
                    => /\ ~call.raised
                       /\ ~IsEmpty(call.ret)
                       /\ \E j \in 1..Len(call.ret.rows) :
                             /\ call.ret.rows[j]["Issue key"] = r["Issue key"]
                             /\ call.ret.rows[j]["Created"] = Null

\* C10: on a table that load_data accepts, prepare_data reports a failure
\* (an error message and an empty result) when every Created value fails to
\* parse, and otherwise succeeds keeping every row that has an Issue key.
C10_InvalidDateColumn ==
    (/\ call.op = "prepare_data"
     /\ required_columns \subseteq call.arg.cols
     /\ call.arg.rows # <<>>)
        => LET keyed == SelectSeq(call.arg.rows, LAMBDA r : ~IsNull(r["Issue key"]))
           IN  IF \A i \in 1..Len(call.arg.rows) : Unparseable(call.arg.rows[i]["Created"])
               THEN IsEmpty(call.ret) /\ Len(call.errs) = 1
               ELSE call.errs = <<>> /\ Len(call.ret.rows) = Len(keyed)

\* the call was prepare_data on the table load_data returns for the CSV file,
\* and the file has the required columns
LoadedThenPrepared ==
    /\ call.op = "prepare_data"
    /\ csv.exists /\ csv.parses
    /\ required_columns \subseteq csv.table.cols
    /\ call.arg = load_data(csv).ret

\* C11: the table produced by load_data followed by prepare_data holds no two
\* rows with the same Issue key.
C11_UniqueIssueKey ==
    LoadedThenPrepared
        => \A i \in 1..Len(call.ret.rows) : \A j \in 1..Len(call.ret.rows) :
              i # j => call.ret.rows[i]["Issue key"] # call.ret.rows[j]["Issue key"]

\* C12: when the input table has an Issue key column, no row of
\* prepare_data's output has a null Issue key, with or without a Created
\* column.
C12_NoNullIssueKey ==
    (call.op = "prepare_data" /\ "Issue key" \in call.arg.cols)
        => \A i \in 1..Len(call.ret.rows) : ~IsNull(call.ret.rows[i]["Issue key"])

\* C13: after load_data followed by prepare_data every row has a Story Points
\* value that is a number and is >= 0.
C13_StoryPointsNumeric ==
    (LoadedThenPrepared /\ call.ret.rows # <<>>)
        => /\ "Story Points" \in call.ret.cols
           /\ \A i \in 1..Len(call.ret.rows) :
                 /\ call.ret.rows[i]["Story Points"].t = "num"
                 /\ call.ret.rows[i]["Story Points"].n >= 0

\* C14: prepare_data is idempotent: preparing a non-empty table it returned
\* gives the same columns, rows and cell values again.
C14_PrepareIdempotent ==
    (call.op = "prepare_data" /\ ~call.raised /\ call.errs = <<>> /\ ~IsEmpty(call.ret))
        => prepare_data(call.ret).ret = call.ret

\* the operations that compute figures from the caller's table
AnalysisOps ==
    {"get_sprint_metrics", "calculate_metrics", "calculate_velocity_metrics",
     "show_epic_progress", "processor_get_sprint_metrics"}

\* C15: no metrics or visualisation call changes the table it is given: the
\* caller's table has the same columns and cell values after the call.
C15_TableUnmodified ==
    [][call'.op \in AnalysisOps => df' = df]_vars

\* the first entry of a comma-separated sprint value, trimmed
FirstListEntry(s) == Strip(SplitFirst(s))

\* C16: after prepare each row's Sprint is the first entry of the row's
\* comma-separated sprint value, it is "No Sprint" and never an empty string
\* when the row has no sprint value, and then its Sprint Number is -1.
C16_SprintFirstEntry ==
    (/\ call.op = "prepare_data"
     /\ "Sprint" \in call.arg.cols
     /\ Len(call.ret.rows) = Len(call.arg.rows))
        => \A i \in 1..Len(call.ret.rows) :
              LET raw == call.arg.rows[i]["Sprint"]
                  out == call.ret.rows[i]["Sprint"]
                  given == ~IsNull(raw) /\ Strip(PyStr(raw)) # <<>>
              IN  /\ out.t = "str"
                  /\ out.s = (IF given THEN FirstListEntry(PyStr(raw)) ELSE s_No_Sprint)
                  /\ out.s # <<>>
                  /\ out.s = s_No_Sprint => call.ret.rows[i]["Sprint Number"] = N(-1)

\* the rows of a table that name no epic
RowsWithoutEpic(t) ==
    SelectSeq(t.rows, LAMBDA r : "Epic Name" \notin t.cols \/ IsNull(r["Epic Name"]))

\* C17: prepare gives every issue an epic name, "No Epic" when the source has
\* none, and the epic progress of a prepared table groups the issues without
\* an epic under "No Epic" (also when the input had no epic column).
C17_NoEpicGroup ==
    /\ (call.op = "prepare_data" /\ ~IsEmpty(call.ret))
          => /\ "Epic Link" \in call.ret.cols
             /\ \A i \in 1..Len(call.ret.rows) :
                   /\ call.ret.rows[i]["Epic Link"].t = "str"
                   /\ ("Epic Name" \notin call.arg.cols \/ IsNull(call.ret.rows[i]["Epic Name"]))
                         => call.ret.rows[i]["Epic Link"] = S(s_No_Epic)
    /\ (/\ call.op = "show_epic_progress"
        /\ {"Status Category", "Story Points"} \subseteq call.arg.cols
        /\ SumCol(RowsWithoutEpic(call.arg), "Story Points") > 0)
          => /\ call.ret.errs = <<>>
             /\ S(s_No_Epic) \in DOMAIN call.ret.epic_data
             /\ call.ret.epic_data[S(s_No_Epic)].story_points
                   = SumCol(RowsWithoutEpic(call.arg), "Story Points")

\* in s, "Sprint" starts at i, is followed by whitespace up to k, and the
\* digits from k to e are the whole run of digits there
IntegerAfterSprint(s, i, k, e) ==
    /\ i + 6 <= k /\ k <= e /\ e <= Len(s)
    /\ SubSeq(s, i, i + 5) = s_Sprint
    /\ \A j \in (i + 6)..(k - 1) : IsSpace(s[j])
    /\ \A j \in k..e : IsDigit(s[j])
    /\ (e < Len(s) => ~IsDigit(s[e + 1]))

\* C18: extract_sprint_number returns the first integer that immediately
\* follows "Sprint" (whitespace allowed in between) and -1 for "No Sprint",
\* for an empty or missing value and for a name without such an integer;
\* "BP: EFDDH Sprint 21" gives 21.
C18_ExtractSprintNumber ==
    /\ extract_sprint_number(S(s_BP_Sprint_21)) = 21
    /\ extract_sprint_number(S(s_No_Sprint)) = -1
    /\ extract_sprint_number(S(<<>>)) = -1
    /\ extract_sprint_number(Null) = -1
    /\ call.op = "extract_sprint_number"
          => IF call.arg.t # "str" THEN call.ret = -1
             ELSE LET s == call.arg.s
                      found == {t \in (1..Len(s)) \X (1..Len(s)) \X (1..Len(s)) :
                                   IntegerAfterSprint(s, t[1], t[2], t[3])}
                  IN  IF found = {} THEN call.ret = -1
                      ELSE \E t \in found :
                              /\ \A u \in found : t[1] <= u[1]
                              /\ call.ret = DigitsToInt(SubSeq(s, t[2], t[3]))

\* extract_sprint_number was given a name with a prefix, two blanks before
\* the number and a second sprint after it
C18_Witness ==
    /\ call.op = "extract_sprint_number"
    /\ call.arg = S(<<"V","2"," ","S","p","r","i","n","t"," "," ","0","0","7",
                      ","," ","S","p","r","i","n","t"," ","2","2">>)
    /\ call.ret = 7

\* the sprint names of a table: the texts of its Sprint column
SprintNamesOf(t) ==
    IF IsNone(t) \/ IsEmpty(t) \/ "Sprint" \notin t.cols THEN {}
    ELSE {c \in {t.rows[i]["Sprint"] : i \in 1..Len(t.rows)} : c.t = "str"}

\* C19: get_available_sprints returns the empty list for a None or empty
\* table, and for a table with a Sprint column, with or without a Sprint
\* Number column, it does not raise and returns every sprint name matching
\* the pattern exactly once, latest sprint number first.
C19_AvailableSprints ==
    call.op = "get_available_sprints"
        => IF IsNone(call.arg) \/ IsEmpty(call.arg)
           THEN ~call.raised /\ call.ret = <<>>
           ELSE "Sprint" \in call.arg.cols
                   => /\ ~call.raised
                      /\ {call.ret[i] : i \in 1..Len(call.ret)}
                            = {c \in SprintNamesOf(call.arg) : str_contains(c, s_BP_EFDDH_Sprint)}
                      /\ \A i \in 1..Len(call.ret) : \A j \in 1..Len(call.ret) :
                            i < j => /\ call.ret[i] # call.ret[j]
                                     /\ extract_sprint_number(call.ret[i])
                                           >= extract_sprint_number(call.ret[j])

\* C20: get_current_sprint returns a sprint name of the table whose
\* extract_sprint_number is the largest, and "No Sprint Data" exactly when no
\* sprint name of the table has a sprint number.
C20_CurrentSprint ==
    call.op = "get_current_sprint"
        => LET numbered == {c \in SprintNamesOf(call.arg) : extract_sprint_number(c) # -1}
           IN  IF numbered = {} THEN call.ret = S(s_No_Sprint_Data)
               ELSE /\ call.ret \in numbered
                    /\ \A c \in numbered :
                          extract_sprint_number(c) <= extract_sprint_number(call.ret)

\* C29: on a prepared table the first sprint of get_available_sprints is the
\* sprint get_current_sprint returns, and get_current_sprint returns
\* "No Sprint Data" only when get_available_sprints returns the empty list.
C29_LatestSprintsAgree ==
    (/\ call.op = "get_available_sprints"
     /\ ~IsNone(call.arg)
     /\ "Sprint Number" \in call.arg.cols
     /\ ~call.raised)
        => /\ call.ret # <<>> => call.ret[1] = get_current_sprint(call.arg)
           /\ get_current_sprint(call.arg) = S(s_No_Sprint_Data) => call.ret = <<>>

\* C21: calculate_velocity_metrics returns the story points of the completed
\* issues, missing points counted as 0, divided by 2, and the number of
\* completed issues; for a None table, an empty table and a table without
\* the Status or the Story Points column it returns velocity 0.0 and
\* completed 0.
C21_VelocityMetrics ==
    call.op = "calculate_velocity_metrics"
        => IF IsNone(call.arg) \/ ~validate_data(call.arg, {"Status", "Story Points"})
           THEN RatIsZero(call.ret.velocity) /\ call.ret.completed = 0
           ELSE /\ call.ret.completed = Len(CompletedByKeywords(call.arg.rows))
                /\ RatEq(call.ret.velocity, Rat(CompletedPoints(call.arg.rows), 2))

\* C30: for a table whose story points are all non-negative, every progress
\* percentage that the epic-progress computation reports lies between 0 and
\* 100.
C30_EpicProgressRange ==
    (/\ call.op = "show_epic_progress"
     /\ ~IsNone(call.arg)
     /\ "Story Points" \in call.arg.cols
     /\ \A i \in 1..Len(call.arg.rows) :
           call.arg.rows[i]["Story Points"].t = "num"
              => call.arg.rows[i]["Story Points"].n >= 0)
        => \A e \in DOMAIN call.ret.epic_data :
              /\ call.ret.epic_data[e].progress.num >= 0
              /\ call.ret.epic_data[e].progress.num <= 100 * call.ret.epic_data[e].progress.den

\* the rows of rs with assignee a that are not completed by the seven
\* keywords
IncompleteOf(rs, a) ==
    SelectSeq(rs, LAMBDA r : r["Assignee"] = a
                              /\ Lower(PyStr(r["Status"])) \notin CompletedKeywords7)

\* C22: the workload by assignee gives every assignee with incomplete issues
\* the sum of the story points of exactly those issues, an issue being
\* incomplete when its status is not in the completed keyword set, and lists
\* the assignees by descending sum.
C22_WorkloadByAssignee ==
    (/\ call.op = "show_capacity_management"
     /\ validate_data(call.arg, {"Story Points", "Status", "Assignee"}))
        => /\ call.ret.errs = <<>>
           /\ \A i \in 1..Len(call.arg.rows) :
                 LET a == call.arg.rows[i]["Assignee"]
                 IN  (~IsNull(a) /\ IncompleteOf(call.arg.rows, a) # <<>>)
                        => \E k \in 1..Len(call.ret.workload) :
                              call.ret.workload[k].assignee = a
           /\ \A k \in 1..Len(call.ret.workload) :
                 call.ret.workload[k].story_points
                    = SumCol(IncompleteOf(call.arg.rows, call.ret.workload[k].assignee),
                             "Story Points")
           /\ \A k \in 1..Len(call.ret.workload) : \A l \in 1..Len(call.ret.workload) :
                 k < l => /\ call.ret.workload[k].assignee # call.ret.workload[l].assignee
                          /\ call.ret.workload[k].story_points
                                >= call.ret.workload[l].story_points

\* call j stored the entry that was the latest for the wrapper and arguments
\* of the later call i
LatestStore(j, i) ==
    /\ j < i
    /\ trace[j].wrapper = trace[i].wrapper
    /\ ArgCombination(trace[j].input) = ArgCombination(trace[i].input)
    /\ trace[j].invoked /\ ~trace[j].raised
    /\ \A k \in (j + 1)..(i - 1) :
          ~(/\ trace[k].wrapper = trace[i].wrapper
            /\ ArgCombination(trace[k].input) = ArgCombination(trace[i].input)
            /\ trace[k].invoked /\ ~trace[k].raised)

\* C23: a call with the same arguments made more than ttl seconds after the
\* entry was stored invokes the wrapped function again, and a call within
\* ttl returns the stored value without invoking it.
C23_TimeToLive ==
    \A i \in 1..Len(trace) : \A j \in 1..Len(trace) :
        LatestStore(j, i)
           => IF trace[i].time > trace[j].time + DecoratorTtl[trace[i].wrapper.dec]
              THEN trace[i].invoked
              ELSE ~trace[i].invoked /\ trace[i].ret = trace[j].ret

\* C24: when all calls go through one wrapper, the wrapped function returns
\* at most once per argument combination, keyword arguments compared without
\* their order, and every call that returns gives the value the function
\* produced for the call's own argument combination, so that calls with
\* different arguments share no entry.
C24_OncePerArguments ==
    (\A i \in 1..Len(trace) : trace[i].wrapper = trace[1].wrapper)
        => /\ \A i \in 1..Len(trace) : \A j \in 1..Len(trace) :
                 (/\ i < j
                  /\ ArgCombination(trace[i].input) = ArgCombination(trace[j].input)
                  /\ trace[i].invoked /\ ~trace[i].raised)
                     => ~trace[j].invoked
           /\ \A i \in 1..Len(trace) :
                 ~trace[i].raised
                    => trace[i].ret = func_value(trace[i].wrapper.func, trace[i].input)

\* C25: a call of a wrapped function never returns a value that a different
\* wrapped function produced.
C25_OwnCache ==
    \A i \in 1..Len(trace) :
        ~trace[i].raised => trace[i].ret.by = trace[i].wrapper.func

\* max(1, max_attempts) of the call
AttemptBudget == IF call.arg.max_attempts > 1 THEN call.arg.max_attempts ELSE 1

\* the attempts of the budget at which the function would return
Successes == {k \in 1..AttemptBudget : call.arg.outcomes[k] = "ok"}

\* C26: a retry wrapper invokes the function at most max(1, max_attempts)
\* times per call, returns the result of the first successful attempt
\* without invoking the function again, and raises the exception of the
\* final attempt when every attempt fails.
C26_RetryAttempts ==
    call.op = "retry"
        => /\ call.ret.invocations <= AttemptBudget
           /\ IF Successes # {}
              THEN /\ call.ret.result.kind = "returned"
                   /\ \A k \in Successes : call.ret.result.attempt + 1 <= k
                   /\ call.ret.invocations = call.ret.result.attempt + 1
              ELSE /\ call.ret.result
                         = [kind |-> "raised", by |-> "func", attempt |-> AttemptBudget - 1]
                   /\ call.ret.invocations = AttemptBudget

\* C27: the k-th sleep of a retry wrapper, k counted from 0, lasts
\* delay * 2^k, and the number of sleeps is the number of attempts minus one:
\* there is no sleep after a successful attempt nor after the final one.
C27_RetryBackoff ==
    call.op = "retry"
        => /\ Len(call.ret.sleeps) = call.ret.invocations - 1
           /\ \A k \in 1..Len(call.ret.sleeps) :
                 call.ret.sleeps[k] = call.arg.delay * (2 ^ (k - 1))

\* a call with delay 1 failed twice, slept 1 and 2 seconds and then returned
C27_Witness ==
    /\ call.op = "retry"
    /\ call.arg.delay = 1
    /\ call.ret.sleeps = <<1, 2>>
    /\ call.ret.invocations = 3
    /\ call.ret.result.kind = "returned"

PageOps == {"Analytics page", "Capacity page", "streamlit_app"}

\* prepare_data and the metrics and chart functions the pages call
DataFunctions ==
    {"prepare_data", "show_analytics", "show_capacity_management", "show_charts",
     "show_velocity_metrics", "show_epic_progress"}

\* C28: on every page entry point prepare_data and the metrics and chart
\* functions are called only after load_data returned a non-empty table;
\* when load_data returns its empty result the page reports the failure and
\* stops without calling prepare_data.
C28_LoadBeforePrepare ==
    call.op \in PageOps
        => /\ \A i \in 1..Len(call.ret.log) :
                 call.ret.log[i] \in DataFunctions
                    => /\ \E j \in 1..(i - 1) : call.ret.log[j] = "load_data"
                       /\ ~IsEmpty(load_data(call.arg).ret)
           /\ IsEmpty(load_data(call.arg).ret)
                 => /\ call.ret.log = <<"load_data">>
                    /\ call.ret.errs # <<>>
                    /\ call.ret.stopped

=============================================================================
